---- MODULE Spec2Model ----
(***************************************************************************)
(* Model of the code execution service of OWC-backend:                     *)
(*   UserManager.execute_user_code / execute_code / execute_<lang>_code /  *)
(*   run_docker_container (src/middleware/user/manager.py) and the         *)
(*   /code/execute endpoint (src/middleware/user/endpoints.py).            *)
(*                                                                         *)
(* Text is a sequence of tokens (one token = one character or one fixed    *)
(* piece of a format string).  Bytes are the same tokens plus BAD, a byte  *)
(* that is not valid UTF-8.  A Python value that may be None is a record   *)
(* [none, text].                                                           *)
(***************************************************************************)
EXTENDS Integers, Sequences, FiniteSets, TLC

\* Number of /code/execute requests in one run of the model.
MaxCalls == 2

Calls == 1..MaxCalls

----------------------------------------------------------------------------
(* Python values *)

None == [none |-> TRUE, text |-> <<>>]

Str(t) == [none |-> FALSE, text |-> t]

\* bool(v) of a str-or-None value
Truthy(v) == ~v.none /\ v.text # <<>>

\* A byte that does not decode as UTF-8.
BAD == "\\xff"

Whitespace == {" ", "\n"}

\* bytes.decode('utf-8') succeeds
Decodable(bytes) == \A i \in 1..Len(bytes) : bytes[i] # BAD

RECURSIVE LStrip(_)
LStrip(t) == IF t # <<>> /\ Head(t) \in Whitespace THEN LStrip(Tail(t)) ELSE t

RECURSIVE RStrip(_)
RStrip(t) ==
  IF t # <<>> /\ t[Len(t)] \in Whitespace THEN RStrip(SubSeq(t, 1, Len(t) - 1)) ELSE t

\* str.strip()
Strip(t) == RStrip(LStrip(t))

\* t occurs in s as a contiguous piece (Python: t in s)
Contains(s, t) ==
  \E i \in 0..(Len(s) - Len(t)) : SubSeq(s, i + 1, i + Len(t)) = t

\* s begins with t (Python: s.startswith(t))
StartsWith(s, t) == Len(s) >= Len(t) /\ SubSeq(s, 1, Len(t)) = t

----------------------------------------------------------------------------
(* The language registry *)

USING_LANGUAGE == {"python", "c", "cpp", "js", "cs", "ruby", "go"}

\* Languages a client may send: the allow-list and one outside it.
Languages == USING_LANGUAGE \cup {"haskell"}

\* The requesters: User rows (username, uuid_file_store).
Alice == [username |-> "alice", uuid_file_store |-> "s1"]

Bob == [username |-> "bob", uuid_file_store |-> "s2"]

Users == {Alice, Bob}

(***************************************************************************)
(* Submitted code.  A source text is identified by what the program does   *)
(* when it is built and run by the toolchain of its language:              *)
(*   compiles  the compiler / interpreter accepts it                       *)
(*   halts     the run ends                                                *)
(*   out, err  the bytes it writes to stdout and stderr                    *)
(*   exit      its exit status                                             *)
(***************************************************************************)
Behaviour ==
  [ hello   |-> [compiles |-> TRUE, halts |-> TRUE, out |-> <<"h", "i", "\n">>,
                 err |-> <<>>, exit |-> 0],
    silent  |-> [compiles |-> TRUE, halts |-> TRUE, out |-> <<>>,
                 err |-> <<>>, exit |-> 0],
    crash   |-> [compiles |-> TRUE, halts |-> TRUE, out |-> <<"h">>,
                 err |-> <<"e", "\n">>, exit |-> 1],
    garbled |-> [compiles |-> TRUE, halts |-> TRUE, out |-> <<"h">>,
                 err |-> <<BAD>>, exit |-> 1],
    syntax  |-> [compiles |-> FALSE, halts |-> TRUE, out |-> <<>>,
                 err |-> <<" ", "d", "\n">>, exit |-> 1],
    loop    |-> [compiles |-> TRUE, halts |-> FALSE, out |-> <<>>,
                 err |-> <<>>, exit |-> 0] ]

Codes == DOMAIN Behaviour

\* The requests clients send: by one requester a valid and an invalid
\* program in every language and every kind of program in python, and a
\* few by a second requester.
Requests ==
  [code : {"hello", "syntax"}, language : Languages, user : {Alice}]
  \cup [code : Codes, language : {"python"}, user : {Alice}]
  \cup [code : {"hello"}, language : {"python", "cs", "go"}, user : {Bob}]

----------------------------------------------------------------------------
(* Paths and names.  A file name is a sequence of tokens, a path a         *)
(* sequence of names.                                                      *)

\* str(uuid.uuid4()): the n-th token drawn; tokens never repeat.
Uuid4(n) == <<"uuid-", ToString(n)>>

\* f"{os.getcwd()}/storage/{user.username}_{user.uuid_file_store}/projects"
UserDir(user) ==
  << <<"storage">>, <<user.username, "_", user.uuid_file_store>>, <<"projects">> >>

\* os.path.join(dir, name)
Join(dir, name) == Append(dir, name)

\* every directory os.makedirs(dir, exist_ok=True) leaves in place
Prefixes(dir) == { SubSeq(dir, 1, k) : k \in 1..Len(dir) }

\* The directory of a path (os.path.dirname).
DirOf(path) == SubSeq(path, 1, Len(path) - 1)

\* os.path.basename
BaseName(path) == path[Len(path)]

\* The fixed in-container working directory the user directory is mounted at.
APP == "/usr/src/app/"

CsProject == <<"cs_project">>

\* The name of the source file each execute_<language>_code writes
\* (uuid is the token drawn for this call).
FileName(language, uuid) ==
  CASE language = "python" -> <<"code", ".py">>
    [] language = "c"      -> uuid \o <<".c">>
    [] language = "cpp"    -> uuid \o <<".cpp">>
    [] language = "js"     -> uuid \o <<".js">>
    [] language = "cs"     -> uuid \o <<".cs">>
    [] language = "ruby"   -> uuid \o <<".rb">>
    [] language = "go"     -> uuid \o <<".go">>

\* The path of that file on the host.
FilePath(language, user_dir, uuid) ==
  IF language = "cs"
    THEN Join(Join(user_dir, CsProject), FileName(language, uuid))
    ELSE Join(user_dir, FileName(language, uuid))

\* Whether execute_<language>_code draws a uuid4 for the file name.
DrawsUuid(language) == language # "python"

\* The image each execute_<language>_code runs.
Image(language) ==
  CASE language = "python" -> "python:3.9"
    [] language = "c"      -> "gcc:latest"
    [] language = "cpp"    -> "gcc:latest"
    [] language = "js"     -> "node:latest"
    [] language = "cs"     -> "mcr.microsoft.com/dotnet/sdk:latest"
    [] language = "ruby"   -> "ruby:latest"
    [] language = "go"     -> "golang:latest"

\* The command string each execute_<language>_code passes to the container,
\* as tokens; name is the base name of the file just written.
Command(language, name) ==
  CASE language = "python" -> <<"python ", APP, "code", ".py">>
    [] language = "c"      ->
         <<"sh -c 'gcc ", APP>> \o name \o <<" -o /tmp/code && /tmp/code'">>
    [] language = "cpp"    ->
         <<"sh -c 'g++ ", APP>> \o name \o <<" -o /tmp/code && /tmp/code'">>
    [] language = "js"     -> <<"node ", APP>> \o name
    [] language = "cs"     ->
         <<"sh -c 'dotnet new console -o ", APP>> \o CsProject
           \o <<" --force && dotnet build ", APP>> \o CsProject
           \o <<" -v diag && dotnet run --project ", APP>> \o CsProject \o <<"'">>
    [] language = "ruby"   -> <<"ruby ", APP>> \o name
    [] language = "go"     ->
         <<"sh -c 'cd /usr/src/app && go mod init usercode && go build ",
           APP, "code", ".go", " && ./code'">>

----------------------------------------------------------------------------
(***************************************************************************)
(* What a container does: the shell command run by the image's toolchain   *)
(* in the mounted directory.  fs maps the host paths of the files to their *)
(* contents; mount is the host directory bound at /usr/src/app.  The       *)
(* result gives the steps of the command that ran, whether the run ends,   *)
(* the bytes on stdout and stderr, the exit status and the files the run   *)
(* leaves in the mounted directory.                                        *)
(***************************************************************************)
NoWrites == <<>>

\* One step of a shell command and what it did.
Step(name, halts, out, err, exit, writes) ==
  [steps |-> <<name>>, halts |-> halts, out |-> out, err |-> err, exit |-> exit,
   writes |-> writes]

\* a ; b of the shell: b runs whatever the status of a
AndThenSemicolon(a, b) ==
  IF ~a.halts THEN a
  ELSE [steps |-> a.steps \o b.steps, halts |-> b.halts, out |-> a.out \o b.out,
        err |-> a.err \o b.err, exit |-> b.exit, writes |-> a.writes \o b.writes]

\* a && b of the shell: b runs only after a has ended with status 0, and the
\* status of the chain is that of the last step that ran.
AndThen(a, b) ==
  IF ~a.halts \/ a.exit # 0 THEN a
  ELSE [steps |-> a.steps \o b.steps, halts |-> b.halts, out |-> a.out \o b.out,
        err |-> a.err \o b.err, exit |-> b.exit, writes |-> a.writes \o b.writes]

\* The interpreter or compiler cannot open its input file.
NoSuchFile(name) == Step(name, TRUE, <<>>, <<"No such file", "\n">>, 1, NoWrites)

\* The shell cannot find the binary it is told to run.
NotFound == Step("run", TRUE, <<>>, <<"not found", "\n">>, 127, NoWrites)

\* An interpreter (python, node, ruby) given one source file.
RunFile(fs, path) ==
  IF path \notin DOMAIN fs \/ fs[path] \notin Codes THEN NoSuchFile("run")
  ELSE LET b == Behaviour[fs[path]] IN
       IF ~b.compiles
         THEN Step("run", TRUE, <<>>, b.err, 1, NoWrites)
         ELSE Step("run", b.halts, b.out, b.err, b.exit, NoWrites)

\* A compiler (gcc, g++, go build) given one source file.
Compile(fs, path) ==
  IF path \notin DOMAIN fs \/ fs[path] \notin Codes THEN NoSuchFile("compile")
  ELSE LET b == Behaviour[fs[path]] IN
       IF ~b.compiles
         THEN Step("compile", TRUE, <<>>, b.err, 1, NoWrites)
         ELSE Step("compile", TRUE, <<>>, <<>>, 0, NoWrites)

\* Running the binary the compile step built left behind, if it left one.
Exec(built, fs, path) ==
  IF built.exit # 0 THEN NotFound
  ELSE LET b == Behaviour[fs[path]] IN
       Step("run", b.halts, b.out, b.err, b.exit, NoWrites)

\* gcc <file> -o /tmp/code && /tmp/code
CompileAndRun(fs, path) ==
  LET built == Compile(fs, path) IN AndThen(built, Exec(built, fs, path))

GoMod == <<"go.mod">>

GoModCreated == <<"go: creating new go.mod: module usercode", "\n">>

\* go mod init usercode, run in mount
GoModInit(fs, mount) ==
  IF Join(mount, GoMod) \in DOMAIN fs
    THEN Step("mod init", TRUE, <<>>, <<"go: ", "go.mod", " already exists", "\n">>,
              1, NoWrites)
    ELSE Step("mod init", TRUE, <<>>, GoModCreated, 0,
              << <<Join(mount, GoMod), "module usercode">> >>)

\* go mod init usercode && go build <file> && ./code, run in mount
RunGo(fs, mount, name) ==
  LET built == Compile(fs, Join(mount, name)) IN
    AndThen(GoModInit(fs, mount), AndThen(built, Exec(built, fs, Join(mount, name))))

ProgramCs == <<"Program", ".cs">>

DotnetTemplate == "Console.WriteLine(Hello, World!)"

DotnetLog == "<dotnet new / dotnet build -v diag log>"

\* The .cs files of a project directory other than the template's Program.cs.
SourcesIn(fs, proj) ==
  { p \in DOMAIN fs : DirOf(p) = proj /\ BaseName(p) # ProgramCs }

\* dotnet new console -o <proj> --force: the template's Program.cs and the
\* project file are (re)written.
DotnetNew(proj) ==
  Step("new", TRUE, <<>>, <<>>, 0,
       << <<Join(proj, ProgramCs), DotnetTemplate>>,
          <<Join(proj, <<"cs_project", ".csproj">>), "<Project Sdk>">> >>)

\* dotnet build <proj>: every .cs file of the project directory is compiled.
DotnetBuild(fs, proj) ==
  LET bad == { p \in SourcesIn(fs, proj) :
                 fs[p] \in Codes /\ ~Behaviour[fs[p]].compiles }
  IN IF bad # {}
       THEN Step("compile", TRUE, <<DotnetLog>>, Behaviour.syntax.err, 1, NoWrites)
       ELSE Step("compile", TRUE, <<DotnetLog>>, <<>>, 0, NoWrites)

\* dotnet run --project <proj>: the entry point is the template's top-level
\* statement (a Main of another file is ignored); without a successful build
\* there is nothing to run.
DotnetRun(built) ==
  IF built.exit # 0 THEN NotFound
  ELSE Step("run", TRUE, <<"Hello, World!", "\n">>, <<>>, 0, NoWrites)

\* dotnet new console -o <proj> --force && dotnet build <proj> && dotnet run
RunDotnet(fs, proj) ==
  LET built == DotnetBuild(fs, proj) IN
    AndThen(DotnetNew(proj), AndThen(built, DotnetRun(built)))

\* The name after /usr/src/app/ in a command, up to token number last.
Target(command, last) == SubSeq(command, 3, last)

\* The run of a container of the given command with mount bound read-write.
ContainerRun(fs, mount, command) ==
  LET tool == command[1] IN
  CASE tool \in {"python ", "node ", "ruby "} ->
         RunFile(fs, Join(mount, Target(command, Len(command))))
    [] tool \in {"sh -c 'gcc ", "sh -c 'g++ "} ->
         CompileAndRun(fs, Join(mount, Target(command, Len(command) - 1)))
    [] tool = "sh -c 'cd /usr/src/app && go mod init usercode && go build " ->
         RunGo(fs, mount, Target(command, Len(command) - 1))
    [] tool = "sh -c 'dotnet new console -o " ->
         RunDotnet(fs, Join(mount, Target(command, 3)))

\* fs after the files of writes (a sequence of <<path, content>>) are written.
RECURSIVE WriteAll(_, _)
WriteAll(fs, writes) ==
  IF writes = <<>> THEN fs
  ELSE WriteAll((Head(writes)[1] :> Head(writes)[2]) @@ fs, Tail(writes))

----------------------------------------------------------------------------
(* Results of the Python functions: a returned (output, error) pair or a   *)
(* raised exception with its str().                                        *)

Return(output, error) ==
  [raised |-> FALSE, output |-> output, error |-> error, msg |-> <<>>]

Raise(msg) == [raised |-> TRUE, output |-> <<>>, error |-> None, msg |-> msg]

\* error or None
OrNone(v) == IF Truthy(v) THEN v ELSE None

\* str() of the exceptions of the libraries.
OSErrorMsg == <<"[Errno 13] Permission denied">>

DockerExceptionMsg == <<"Error while fetching server API version">>

ConnectionErrorMsg == <<"Connection aborted">>

ImageNotFoundMsg == <<"404 Client Error: Not Found (pull access denied)">>

APIErrorMsg == <<"500 Server Error: Internal Server Error">>

UnicodeDecodeErrorMsg == <<"'utf-8' codec can't decode byte 0xff">>

AttributeErrorMsg == <<"'Container' object has no attribute 'decode'">>

\* What client.containers.run(..., detach=False, stdout=True, stderr=True)
\* hands back for a container that exited: the combined log on status 0,
\* ContainerError carrying the stderr log otherwise.
ExitEvent(r) ==
  [kind |-> "exit", status |-> r.exit, logs |-> r.out \o r.err, stderr |-> r.err]

EngineError(kind) == [kind |-> kind, status |-> 0, logs |-> <<>>, stderr |-> <<>>]

\* The message without the exit status
ContainerErrorTextNoStatus(image, command, status, output) ==
  <<"Command '">> \o command \o <<"' in image '", image,
    "' returned non-zero exit status ", ": ">> \o output

\* The f-string of the ContainerError branch.
ContainerErrorText(image, command, status, output) ==
  <<"Command '">> \o command \o <<"' in image '", image,
    "' returned non-zero exit status ", ToString(status), ": ">> \o output

\* The exception containers.run raises for an event, and its str().
Raised(ev) == IF ev.kind = "exit" THEN "ContainerError" ELSE ev.kind

Message(ev) ==
  CASE ev.kind = "ImageNotFound"   -> ImageNotFoundMsg
    [] ev.kind = "APIError"        -> APIErrorMsg
    [] ev.kind = "ConnectionError" -> ConnectionErrorMsg
    [] OTHER                       -> <<>>

\* The classes an exception is an instance of (docker.errors, requests).
Classes(kind) ==
  CASE kind = "ContainerError"  -> {"ContainerError", "DockerException", "Exception"}
    [] kind = "ImageNotFound"   ->
         {"ImageNotFound", "NotFound", "APIError", "DockerException", "Exception"}
    [] kind = "APIError"        -> {"APIError", "DockerException", "Exception"}
    [] kind = "ConnectionError" -> {"ConnectionError", "Exception"}

\* The except clauses with APIError tested before ImageNotFound
ExceptClausesApiFirst == <<"ContainerError", "APIError", "ImageNotFound", "Exception">>

\* The except clauses of run_docker_container, in the order they are tested.
ExceptClauses == <<"ContainerError", "ImageNotFound", "APIError", "Exception">>

\* The clause that handles an exception: the first one it is an instance of.
Caught(kind) ==
  LET i == CHOOSE i \in 1..Len(ExceptClauses) :
             /\ ExceptClauses[i] \in Classes(kind)
             /\ \A j \in 1..(i - 1) : ExceptClauses[j] \notin Classes(kind)
  IN ExceptClauses[i]

\* run_docker_container from the return (or exception) of containers.run on.
RunDockerContainer(image, command, ev) ==
  IF ev.kind = "exit" /\ ev.status = 0
    THEN IF Decodable(ev.logs)
           THEN Return(Strip(ev.logs), OrNone(None))
           ELSE Return(<<>>, OrNone(Str(UnicodeDecodeErrorMsg)))
    ELSE LET clause == Caught(Raised(ev)) IN
      CASE clause = "ContainerError" ->
             IF ev.stderr # <<>> /\ ~Decodable(ev.stderr)
               THEN Raise(UnicodeDecodeErrorMsg)
               ELSE LET output == IF ev.stderr # <<>> THEN Strip(ev.stderr) ELSE <<>>
                    IN Return(output,
                         OrNone(Str(ContainerErrorText(image, command, ev.status, output))))
        [] clause = "ImageNotFound" ->
             Return(<<>>, OrNone(Str(<<"Image not found: ">> \o Message(ev))))
        [] clause = "APIError" ->
             Return(<<>>, OrNone(Str(<<"Docker API error: ">> \o Message(ev))))
        [] clause = "Exception" ->
             Return(<<>>, OrNone(Str(Message(ev))))

\* The mapping execute_user_code returns.
Dict(output, error) == [output |-> output, error |-> error]

NotAvailable == Dict(<<>>, Str(<<"This language is not available now">>))

NoOutputOrError == Str(<<"No output or error returned from execution">>)

\* execute_user_code without its except clauses
NormalizeNoExcept(inner) ==
  IF inner.raised
    THEN inner
    ELSE IF ~Truthy(Str(inner.output)) /\ ~Truthy(inner.error)
           THEN Return(inner.output, NoOutputOrError)
           ELSE Return(inner.output, inner.error)

\* execute_user_code testing "not output or not error"
NormalizeOr(inner) ==
  IF inner.raised
    THEN Return(<<>>, Str(inner.msg))
    ELSE IF ~Truthy(Str(inner.output)) \/ ~Truthy(inner.error)
           THEN Return(inner.output, NoOutputOrError)
           ELSE Return(inner.output, inner.error)

\* execute_user_code from the return (or exception) of execute_code on:
\* the try block and its two except clauses.
Normalize(inner) ==
  IF inner.raised
    THEN Return(<<>>, Str(inner.msg))
    ELSE IF ~Truthy(Str(inner.output)) /\ ~Truthy(inner.error)
           THEN Return(inner.output, NoOutputOrError)
           ELSE Return(inner.output, inner.error)

\* The /code/execute endpoint around execute_user_code.
Endpoint(r) ==
  IF r.raised
    THEN [status |-> 500, body |-> [message |-> <<"Error in code execution: {e}">>]]
    ELSE [status |-> 200, body |-> Dict(r.output, r.error)]

----------------------------------------------------------------------------
(* The state *)

VARIABLES
  pc,          \* where each request is: free, running, logging, responded,
               \* closed
  req,         \* the CodeSchema and current user of each request
  loop,        \* the request whose synchronous code holds the event loop, or 0
  dirs,        \* the directories of the host
  files,       \* the files of the host: path -> content
  containers,  \* the containers the engine lists
  uuids,       \* how many uuid4 tokens have been drawn
  local,       \* the local variables of each request's execution
  http,        \* the response of each request
  log,         \* the records written by the logger
  using_language,  \* the class attribute UserManager.USING_LANGUAGE
  engine,      \* the workspace containers the engine lists (utils helpers)
  ids,         \* how many container ids the engine has handed out
  volumes,     \* the volume directories create_container has made
  reply,       \* the last call of a utils helper: arguments and outcome
  path_call    \* the last call of get_abs_file_path: arguments and outcome

\* The state of the execution service and the state of the utils helpers.
coreVars == <<pc, req, loop, dirs, files, containers, uuids, local, http, log,
              using_language>>

utilsVars == <<engine, ids, volumes, reply, path_call>>

vars == <<coreVars, utilsVars>>

NoReq == [code |-> "", language |-> "", user |-> [username |-> "", uuid_file_store |-> ""]]

NoLocal ==
  [path |-> <<>>, container |-> 0, launches |-> 0, fault |-> "none",
   inner |-> Return(<<>>, None)]

NoHttp == [status |-> 0, body |-> Dict(<<>>, None)]

\* What can go wrong outside the user's program during one execution.
Faults ==
  {"none", "mkdir_fail", "open_fail", "connect_fail", "conn_error",
   "image_missing", "api_error"}

Init ==
  /\ pc = [c \in Calls |-> "free"]
  /\ req = [c \in Calls |-> NoReq]
  /\ loop = 0
  /\ dirs = {}
  /\ files = <<>>
  /\ containers = {}
  /\ uuids = 0
  /\ local = [c \in Calls |-> NoLocal]
  /\ http = [c \in Calls |-> NoHttp]
  /\ log = {}
  /\ using_language = USING_LANGUAGE
  /\ engine = {}
  /\ ids = 0
  /\ volumes = {}
  /\ reply = [call |-> "", args |-> <<>>, status |-> 0, detail |-> <<>>]
  /\ path_call = [workspace_path |-> <<>>, filename |-> <<>>, status |-> 0,
                  detail |-> <<>>, abs_path |-> <<>>]

\* The records execute_cs_code hands to the logger.
LogRecords(command, output, error) ==
  IF Truthy(error)
    THEN {[level |-> "error", msg |-> <<"Error during Docker execution: ">> \o error.text]}
         \cup (IF Contains(error.text, <<command[1]>>)
                 THEN {[level |-> "error", msg |-> <<"Failed at 'dotnet new console' step.">>]}
                 ELSE {})
    ELSE {[level |-> "info", msg |-> <<"Docker output: ">> \o output]}

\* The end of execute_code for request c, loc being its local variables
\* and inner what the execute_<language>_code call returned or raised:
\* execute_cs_code awaits the logger before it returns, every other path
\* returns at once, and the endpoint answers with what execute_user_code
\* makes of it.
Conclude(c, language, loc, inner) ==
  /\ local' = [local EXCEPT ![c] = [loc EXCEPT !.inner = inner]]
  /\ IF language = "cs" /\ ~inner.raised
       THEN /\ pc' = [pc EXCEPT ![c] = "logging"]
            /\ UNCHANGED http
       ELSE /\ pc' = [pc EXCEPT ![c] = "responded"]
            /\ http' = [http EXCEPT ![c] = Endpoint(Normalize(inner))]

\* execute_user_code without its allow-list test
AllowedNoCheck(language) == TRUE

\* run_docker_container calling containers.run again after an engine error
LaunchRequestsRetry(fault) ==
  CASE fault \in {"mkdir_fail", "open_fail", "connect_fail"} -> 0
    [] fault \in {"conn_error", "image_missing", "api_error"} -> 2
    [] fault = "none" -> 1

\* How many times one execution calls client.containers.run: once, unless
\* staging or docker.from_env raised before the call.
LaunchRequests(fault) ==
  CASE fault \in {"mkdir_fail", "open_fail", "connect_fail"} -> 0
    [] fault \in {"conn_error", "image_missing", "api_error"} -> 1
    [] fault = "none" -> 1

\* The allow-list test of execute_user_code.
Allowed(language) == language \in using_language

\* the allow-list test adding the language it was asked about to the list
AfterLookupAppend(list, language) == list \cup {language}

\* What the allow-list test leaves in the list it reads: "not in" only reads.
AfterLookup(list, language) == list

\* the if-chain of execute_code without its ruby branch
DispatchedNoRuby(language) ==
  language \in {"python", "c", "cpp", "js", "cs", "go"}

\* run_docker_container reached although makedirs or the write raised
ProceedsAlways(written) == TRUE

\* Whether execute_<language>_code goes on to run_docker_container: the call
\* is inside the with-block of create_code_file, after os.makedirs, so an
\* exception of makedirs, open or write leaves the function before it.
Proceeds(written) == written

\* The languages the if-chain of execute_code has a branch for.
Dispatched(language) ==
  language \in {"python", "c", "cpp", "js", "cs", "go", "ruby"}

\* The fallback of the if-chain of execute_code.
Unsupported == Return(<<>>, Str(<<"Unsupported language">>))

\* containers.run called with detach=True
DetachTrue == TRUE

\* The detach argument run_docker_container passes to containers.run.
Detach == FALSE

\* A container as the engine lists it, with the logs the engine keeps.
Container(id, image, command, mount, status) ==
  [id |-> id, image |-> image, command |-> command, mount |-> mount,
   status |-> status, steps |-> <<>>, exit |-> 0, out |-> <<>>, err |-> <<>>]

NextId == Cardinality(containers) + 1

(***************************************************************************)
(* execute_code for request c with the code, language and user of r, from  *)
(* its entry up to the point where it blocks in containers.run (or, when   *)
(* it does not get that far, up to its end).                               *)
(***************************************************************************)
ExecuteCode(c, r) ==
  LET language == r.language
      code     == r.code
      user_dir == UserDir(r.user)
  IN
     IF ~Dispatched(language)
       THEN \E fault \in {"none", "mkdir_fail"} :
            /\ dirs' = IF fault = "mkdir_fail" THEN dirs ELSE dirs \cup Prefixes(user_dir)
            /\ Conclude(c, language, [NoLocal EXCEPT !.fault = fault],
                 IF fault = "mkdir_fail" THEN Raise(OSErrorMsg) ELSE Unsupported)
            /\ UNCHANGED <<loop, files, containers, uuids>>
       ELSE \E fault \in Faults :
         LET uuid    == Uuid4(uuids + 1)
             path    == FilePath(language, user_dir, uuid)
             image   == Image(language)
             command == Command(language, BaseName(path))
             staged  == fault \notin {"mkdir_fail", "open_fail"}
             loc     == [NoLocal EXCEPT !.fault = fault,
                           !.path = IF staged THEN path ELSE <<>>,
                           !.launches = LaunchRequests(fault)]
         IN
         \* os.makedirs, uuid4, open and write
         /\ dirs' = IF fault = "mkdir_fail" THEN dirs ELSE dirs \cup Prefixes(DirOf(path))
         /\ uuids' = IF fault # "mkdir_fail" /\ DrawsUuid(language) THEN uuids + 1 ELSE uuids
         /\ files' = IF staged THEN (path :> code) @@ files ELSE files
         \* docker.from_env and client.containers.run
         /\ CASE ~Proceeds(staged) ->
                   /\ Conclude(c, language, loc, Raise(OSErrorMsg))
                   /\ UNCHANGED <<loop, containers>>
              [] fault = "connect_fail" ->
                   /\ Conclude(c, language, loc, Raise(DockerExceptionMsg))
                   /\ UNCHANGED <<loop, containers>>
              [] fault = "conn_error" ->
                   /\ Conclude(c, language, loc,
                        RunDockerContainer(image, command, EngineError("ConnectionError")))
                   /\ UNCHANGED <<loop, containers>>
              [] fault = "image_missing" ->
                   /\ Conclude(c, language, loc,
                        RunDockerContainer(image, command, EngineError("ImageNotFound")))
                   /\ UNCHANGED <<loop, containers>>
              [] fault = "api_error" ->
                   /\ Conclude(c, language, loc,
                        RunDockerContainer(image, command, EngineError("APIError")))
                   /\ UNCHANGED <<loop, containers>>
              [] OTHER ->
                   /\ containers' = containers \cup
                        {Container(NextId, image, command, user_dir, "running")}
                   /\ IF Detach
                        \* run returns the Container at once; result.decode raises
                        THEN /\ Conclude(c, language, [loc EXCEPT !.container = NextId],
                                  Return(<<>>, OrNone(Str(AttributeErrorMsg))))
                             /\ UNCHANGED loop
                        \* run blocks until the container has exited
                        ELSE /\ local' = [local EXCEPT ![c] =
                                            [loc EXCEPT !.container = NextId]]
                             /\ pc' = [pc EXCEPT ![c] = "running"]
                             /\ loop' = c
                             /\ UNCHANGED http

(***************************************************************************)
(* A client posts request r to /code/execute and the endpoint calls        *)
(* execute_user_code: request c from the entry of the handler up to the    *)
(* point where it blocks in containers.run (or, when it does not get that  *)
(* far, up to its end).  Nothing in this stretch awaits, so it runs when   *)
(* no other request holds the event loop and no other request runs in      *)
(* between.  Requests are numbered in the order their handlers start, and  *)
(* a response that is ready is sent before the next handler starts.        *)
(***************************************************************************)
Execute(c, r) ==
  /\ pc[c] = "free"
  /\ \A d \in Calls : d < c => pc[d] # "free"
  /\ loop = 0
  /\ \A d \in Calls : pc[d] # "responded"
  /\ req' = [req EXCEPT ![c] = r]
  /\ using_language' = AfterLookup(using_language, r.language)
  /\ UNCHANGED <<log, utilsVars>>
  /\ IF ~Allowed(r.language)
       THEN /\ pc' = [pc EXCEPT ![c] = "responded"]
            /\ http' = [http EXCEPT ![c] =
                 Endpoint(Return(NotAvailable.output, NotAvailable.error))]
            /\ UNCHANGED <<loop, dirs, files, containers, uuids, local>>
       ELSE ExecuteCode(c, r)

\* A caller that awaits execute_code itself, without the allow-list test of
\* execute_user_code in front of it.
CallExecuteCode(c, r) ==
  /\ pc[c] = "free"
  /\ \A d \in Calls : d < c => pc[d] # "free"
  /\ loop = 0
  /\ \A d \in Calls : pc[d] # "responded"
  /\ req' = [req EXCEPT ![c] = r]
  /\ UNCHANGED <<log, using_language, utilsVars>>
  /\ ExecuteCode(c, r)

\* The container request c launched.
ContainerOf(c) == CHOOSE k \in containers : k.id = local[c].container

(***************************************************************************)
(* The container of request c exits and containers.run returns or raises:  *)
(* the rest of run_docker_container and of execute_<language>_code.  A     *)
(* program that never ends leaves the request, and the event loop it       *)
(* holds, blocked here.                                                    *)
(***************************************************************************)
Finish(c) ==
  /\ pc[c] = "running"
  /\ LET k == ContainerOf(c)
         r == ContainerRun(files, k.mount, k.command)
     IN /\ r.halts
        /\ files' = WriteAll(files, r.writes)
        /\ containers' = (containers \ {k}) \cup
             {[k EXCEPT !.status = "exited", !.steps = r.steps, !.exit = r.exit,
                        !.out = r.out, !.err = r.err]}
        /\ Conclude(c, req[c].language, local[c], RunDockerContainer(k.image, k.command, ExitEvent(r)))
  /\ loop' = 0
  /\ UNCHANGED <<req, dirs, uuids, log, using_language, utilsVars>>

\* execute_cs_code resumes after awaiting the logger and returns.
Log(c) ==
  /\ pc[c] = "logging"
  /\ loop = 0
  /\ LET inner == local[c].inner IN
       /\ log' = log \cup LogRecords(Command("cs", <<>>), inner.output, inner.error)
       /\ http' = [http EXCEPT ![c] = Endpoint(Normalize(inner))]
  /\ pc' = [pc EXCEPT ![c] = "responded"]
  /\ UNCHANGED <<req, loop, dirs, files, containers, uuids, local, using_language,
                 utilsVars>>

\* The response reaches the client and the request is over: its task and
\* the local variables of its execution are gone.
Deliver(c) ==
  /\ pc[c] = "responded"
  /\ pc' = [pc EXCEPT ![c] = "closed"]
  /\ http' = [http EXCEPT ![c] = NoHttp]
  /\ local' = [local EXCEPT ![c] = NoLocal]
  /\ UNCHANGED <<req, loop, dirs, files, containers, uuids, log, using_language,
                 utilsVars>>

Next ==
  \/ \E c \in Calls, r \in Requests : Execute(c, r)
  \/ \E c \in Calls : Finish(c)
  \/ \E c \in Calls : Log(c)
  \/ \E c \in Calls : Deliver(c)

Spec == Init /\ [][Next]_vars

\* The service with callers of execute_code instead of the endpoint.
DirectNext ==
  \/ \E c \in Calls, r \in Requests : CallExecuteCode(c, r)
  \/ \E c \in Calls : Finish(c)
  \/ \E c \in Calls : Log(c)
  \/ \E c \in Calls : Deliver(c)

DirectSpec == Init /\ [][DirectNext]_vars

\* The server handling a single request.
OneRequestNext ==
  \/ \E r \in Requests : Execute(1, r)
  \/ Finish(1)
  \/ Log(1)
  \/ Deliver(1)

\* The scheduling of the server: a handler that can run does run, a
\* container that ends is collected, a response that is ready is sent.
FairOneRequest ==
  /\ Init /\ [][OneRequestNext]_vars
  /\ WF_vars(\E r \in Requests : Execute(1, r))
  /\ WF_vars(Finish(1))
  /\ WF_vars(Log(1))
  /\ WF_vars(Deliver(1))

----------------------------------------------------------------------------
(***************************************************************************)
(* The workspace container helpers of src/utils/docker_test.py and         *)
(* src/utils/__docker.py.  A helper either returns (status 200) or raises  *)
(* HTTPException(status, detail).                                          *)
(***************************************************************************)

\* Number of container ids the engine hands out in one run of the model.
MaxContainers == 2

\* Number of commands run in one container in one run of the model.
MaxExecs == 1

WorkspaceIds == {1}

ProjectIds == {1, 2}

\* The languages callers ask a container for, and those they ask a project
\* for (one of them unknown to create_project_in_container).
ContainerLanguages == {"csharp", "python"}

HelperLanguages == {"csharp", "python", "ruby"}

ProjectNames == {"MyProject"}

\* The container ids callers pass: those the engine may hand out and one
\* it never hands out.
ContainerIds == 1..(MaxContainers + 1)

\* The two modules that define create_container.
Modules == {"docker_test", "__docker"}

\* f"workspace_{workspace_id}_project_{project_id}"
ContainerName(workspace_id, project_id) ==
  <<"workspace_", ToString(workspace_id), "_project_", ToString(project_id)>>

\* The image create_container asks for.
ImageName(module, language) ==
  IF module = "docker_test" /\ language = "csharp"
    THEN <<"mcr.microsoft.com/dotnet/sdk:latest">>
    ELSE <<language, ":latest">>

\* os.path.abspath(f"./{workspace_id}/project/{project_id}")
VolumePath(workspace_id, project_id) ==
  <<ToString(workspace_id), "project", ToString(project_id)>>

\* str() of an HTTPException
HTTPExceptionStr(status, detail) == <<ToString(status), ": ">> \o detail

ConflictMsg == <<"409 Client Error: Conflict (name already in use)">>

NotRunningMsg == <<"409 Client Error: Conflict (container is not running)">>

ContainerNotFound == <<"Container not found">>

\* the engine accepting a name that a container already has
NameTakenNever(name) == FALSE

\* The engine refuses to create a container under a name another container,
\* running or stopped, already has.
NameTaken(name) == \E k \in engine : k.name = name

\* client.containers.get(container_id) finds a container.
Known(container_id) == \E k \in engine : k.id = container_id

Get(container_id) == CHOOSE k \in engine : k.id = container_id

Returned(call, args) == [call |-> call, args |-> args, status |-> 200, detail |-> <<>>]

Raised_(call, args, status, detail) ==
  [call |-> call, args |-> args, status |-> status, detail |-> detail]

\* create_container of either module.
create_container(module, workspace_id, project_id, language) ==
  LET container_name == ContainerName(workspace_id, project_id)
      args == [module |-> module, workspace_id |-> workspace_id,
               project_id |-> project_id, language |-> language]
  IN
  /\ volumes' = IF module = "docker_test"
                  THEN volumes \cup {VolumePath(workspace_id, project_id)}
                  ELSE volumes
  /\ \E fault \in {"none", "image_missing"} :
       IF fault = "image_missing"
         THEN /\ reply' = Raised_("create_container", args, 500, ImageNotFoundMsg)
              /\ UNCHANGED <<engine, ids>>
       ELSE IF NameTaken(container_name)
         THEN /\ reply' = Raised_("create_container", args, 500, ConflictMsg)
              /\ UNCHANGED <<engine, ids>>
         ELSE /\ ids < MaxContainers
              /\ ids' = ids + 1
              /\ engine' = engine \cup
                   {[id |-> ids + 1, name |-> container_name,
                     image |-> ImageName(module, language), status |-> "running",
                     execs |-> 0]}
              /\ reply' = Returned("create_container", args)
  /\ UNCHANGED <<coreVars, path_call>>

\* stop_container of either module.
stop_container(container_id) ==
  LET args == [container_id |-> container_id] IN
  /\ IF ~Known(container_id)
       THEN /\ reply' = Raised_("stop_container", args, 404, ContainerNotFound)
            /\ UNCHANGED engine
       ELSE \E fault \in {"none", "api_error"} :
            IF fault = "api_error"
              THEN /\ reply' = Raised_("stop_container", args, 500, APIErrorMsg)
                   /\ UNCHANGED engine
              ELSE /\ engine' = (engine \ {Get(container_id)}) \cup
                        {[Get(container_id) EXCEPT !.status = "exited"]}
                   /\ reply' = Returned("stop_container", args)
  /\ UNCHANGED <<ids, volumes, coreVars, path_call>>

\* remove_container of either module.
remove_container(container_id) ==
  LET args == [container_id |-> container_id] IN
  /\ IF ~Known(container_id)
       THEN /\ reply' = Raised_("remove_container", args, 404, ContainerNotFound)
            /\ UNCHANGED engine
       ELSE \E fault \in {"none", "api_error"} :
            IF fault = "api_error"
              THEN /\ reply' = Raised_("remove_container", args, 500, APIErrorMsg)
                   /\ UNCHANGED engine
              ELSE /\ engine' = engine \ {Get(container_id)}
                   /\ reply' = Returned("remove_container", args)
  /\ UNCHANGED <<ids, volumes, coreVars, path_call>>

\* The commands callers run, with the status each exits with.
ExitCode == [ls |-> 0, false |-> 1]

Commands == DOMAIN ExitCode

\* f"Command failed with exit code {exit_code}: {output.decode('utf-8')}"
CommandFailed(exit_code) ==
  <<"Command failed with exit code ", ToString(exit_code), ": ", "<output>">>

\* container.exec_run(command) and the test of its exit code, inside the
\* try of the helper: what the helper's except clauses make of it.  The
\* HTTPException raised for a non-zero exit code is itself caught by
\* "except Exception" and raised again as a 500 with its str() as detail.
ExecRun(call, args, container_id, command, exit_code) ==
  LET k == Get(container_id) IN
  IF k.status # "running"
    THEN /\ reply' = Raised_(call, args, 500, NotRunningMsg)
         /\ UNCHANGED engine
    ELSE /\ engine' = (engine \ {k}) \cup {[k EXCEPT !.execs = @ + 1]}
         /\ reply' = IF exit_code # 0
                       THEN Raised_(call, args, 500,
                              HTTPExceptionStr(500, CommandFailed(exit_code)))
                       ELSE Returned(call, args)

\* execute_command_in_container of docker_test.
execute_command_in_container(container_id, command) ==
  LET args == [container_id |-> container_id, command |-> command] IN
  /\ IF ~Known(container_id)
       THEN /\ reply' = Raised_("execute_command_in_container", args, 404,
                          ContainerNotFound)
            /\ UNCHANGED engine
       ELSE /\ Get(container_id).execs < MaxExecs
            /\ ExecRun("execute_command_in_container", args, container_id,
                       <<command>>, ExitCode[command])
  /\ UNCHANGED <<ids, volumes, coreVars, path_call>>

\* The command create_project_in_container builds for a language it knows.
ProjectCommand(project_name, language) ==
  IF language = "csharp"
    THEN <<"dotnet new console -n ", project_name, " -o /workspace/", project_name>>
    ELSE <<"python -m venv /workspace/", project_name, " && cd /workspace/",
           project_name, " && pip install -r requirements.txt">>

\* create_project_in_container of docker_test.  The HTTPException(400) for
\* an unsupported language is raised inside the try, so "except Exception"
\* catches it and raises a 500 whose detail is its str().
create_project_in_container(container_id, project_name, language) ==
  LET args == [container_id |-> container_id, project_name |-> project_name,
               language |-> language]
      call == "create_project_in_container"
  IN
  /\ IF ~Known(container_id)
       THEN /\ reply' = Raised_(call, args, 404, ContainerNotFound)
            /\ UNCHANGED engine
       ELSE IF language \notin {"csharp", "python"}
       THEN /\ reply' = Raised_(call, args, 500,
                 HTTPExceptionStr(400, <<"Unsupported language: ", language>>))
            /\ UNCHANGED engine
       ELSE /\ Get(container_id).execs < MaxExecs
            /\ \E exit_code \in {0, 1} :
                 ExecRun(call, args, container_id,
                         ProjectCommand(project_name, language), exit_code)
  /\ UNCHANGED <<ids, volumes, coreVars, path_call>>

UtilsNext ==
  \/ \E module \in Modules, w \in WorkspaceIds, p \in ProjectIds,
        language \in ContainerLanguages : create_container(module, w, p, language)
  \/ \E id \in ContainerIds : stop_container(id)
  \/ \E id \in ContainerIds : remove_container(id)
  \/ \E id \in ContainerIds, command \in Commands :
       execute_command_in_container(id, command)
  \/ \E id \in ContainerIds, name \in ProjectNames, language \in HelperLanguages :
       create_project_in_container(id, name, language)

UtilsSpec == Init /\ [][UtilsNext]_vars

----------------------------------------------------------------------------
(***************************************************************************)
(* UserManager.get_abs_file_path.  A path string is a sequence of tokens:  *)
(* the separator "/", the two dots "..", and letters.  A component is a    *)
(* run of tokens between separators; it names the parent directory exactly *)
(* when it is the single token "..".                                       *)
(***************************************************************************)

\* Longest filename, in tokens, a caller passes.
MaxFilenameLen == 3

PathTokens == {"/", "..", "w", "x"}

Filenames == UNION { [1..n -> PathTokens] : n \in 0..MaxFilenameLen }

WorkspacePaths == { <<"/", "w">>, <<"/", "w", "/">>, <<"/", "w", "/", "x">> }

\* os.path.join(a, b) for two strings
OsPathJoin(a, b) ==
  IF b # <<>> /\ Head(b) = "/" THEN b
  ELSE IF a = <<>> \/ a[Len(a)] = "/" THEN a \o b
  ELSE a \o <<"/">> \o b

\* The components of a path string (str.split('/')).
RECURSIVE Components(_)
Components(s) ==
  IF s = <<>> THEN << <<>> >>
  ELSE LET rest == Components(Tail(s)) IN
       IF Head(s) = "/" THEN << <<>> >> \o rest
       ELSE << <<Head(s)>> \o Head(rest) >> \o Tail(rest)

\* The directory walk of an absolute path: empty components are skipped
\* and ".." steps to the parent (the parent of the root is the root).
RECURSIVE Walk(_, _)
Walk(comps, at) ==
  IF comps = <<>> THEN at
  ELSE LET h == Head(comps) IN
       IF h = <<>> THEN Walk(Tail(comps), at)
       ELSE IF h = <<"..">>
         THEN Walk(Tail(comps), IF at = <<>> THEN at ELSE SubSeq(at, 1, Len(at) - 1))
       ELSE Walk(Tail(comps), Append(at, h))

\* The location an absolute path string resolves to, as a list of names.
Resolve(s) == Walk(Components(s), <<>>)

\* Location p is directory w or lies below it.
Inside(p, w) == Len(p) >= Len(w) /\ SubSeq(p, 1, Len(w)) = w

InvalidPath == <<"Invalid path">>

\* get_abs_file_path: join, then the startswith test.
get_abs_file_path(workspace_path, filename) ==
  LET abs_path == OsPathJoin(workspace_path, filename) IN
  /\ path_call' =
       IF ~StartsWith(abs_path, workspace_path)
         THEN [workspace_path |-> workspace_path, filename |-> filename,
               status |-> 400, detail |-> InvalidPath, abs_path |-> <<>>]
         ELSE [workspace_path |-> workspace_path, filename |-> filename,
               status |-> 200, detail |-> <<>>, abs_path |-> abs_path]
  /\ UNCHANGED <<coreVars, engine, ids, volumes, reply>>

PathNext ==
  \E workspace_path \in WorkspacePaths, filename \in Filenames :
    get_abs_file_path(workspace_path, filename)

PathSpec == Init /\ [][PathNext]_vars

----------------------------------------------------------------------------
(* Properties *)

\* The requests whose execute_user_code has not returned yet.
Executing(c) == pc[c] \in {"running", "logging"}

\* The request launched a container and the container has exited.
Exited(c) ==
  /\ pc[c] \in {"logging", "responded"}
  /\ local[c].container # 0

\* C1: a request whose language is outside the allow-list is answered, in
\* the step that handles it, with output '' and the error 'This language is
\* not available now', and that step creates no directory, writes no file,
\* draws no name and launches no container.
C1_RejectedWithoutSideEffects ==
  [][\A c \in Calls :
       (pc[c] = "free" /\ pc'[c] # "free" /\ req'[c].language \notin USING_LANGUAGE)
         => /\ pc'[c] = "responded"
            /\ http'[c] = [status |-> 200, body |-> NotAvailable]
            /\ UNCHANGED <<dirs, files, containers, uuids, log, loop>>]_vars

C1_Witness ==
  \E c \in Calls :
    /\ pc[c] = "responded"
    /\ req[c].language = "haskell"
    /\ http[c].body = NotAvailable

\* C2: every container the engine lists belongs to a request whose
\* execute_user_code has not returned yet (none is left behind, running or
\* exited, by a call that has returned).
C2_NoContainerOutlivesItsCall ==
  \A k \in containers :
    \E c \in Calls : Executing(c) /\ local[c].container = k.id

\* C3: every staged source file belongs to a request whose execute_user_code
\* has not returned yet (none is left behind by a call that has returned).
C3_NoStagedFileOutlivesItsCall ==
  \A p \in DOMAIN files :
    files[p] \in Codes => \E c \in Calls : Executing(c) /\ local[c].path = p

\* C4: a request whose container runs shares its staged file with no other
\* request, and its container does exactly what it would do if the mounted
\* directory held nothing but the file staged by this request.
C4_CallsDoNotInterfere ==
  \A a \in Calls :
    pc[a] = "running" =>
      /\ \A b \in Calls \ {a} : local[b].path # local[a].path
      /\ LET k == ContainerOf(a) IN
           ContainerRun(files, k.mount, k.command)
             = ContainerRun((local[a].path :> req[a].code), k.mount, k.command)

\* C5: a request that waits for its container eventually stops waiting
\* (the run ends or is cut off at the time budget).
C5_RunEventuallyReturns ==
  \A c \in Calls : (pc[c] = "running") ~> (pc[c] # "running")

\* C6: whatever fails, the endpoint never answers 500, and every answer is
\* a mapping with exactly the keys output and error.
C6_AlwaysStructuredResult ==
  \A c \in Calls :
    /\ http[c].status # 500
    /\ pc[c] = "responded" =>
         /\ http[c].status = 200
         /\ DOMAIN http[c].body = {"output", "error"}

C6_Witness ==
  \E c \in Calls :
    /\ pc[c] = "responded"
    /\ local[c].fault = "connect_fail"
    /\ http[c].body = Dict(<<>>, Str(DockerExceptionMsg))

\* C7: for an allow-listed language whose execute_code returned (output,
\* error), the answer carries the synthesized diagnostic exactly when output
\* and error are both empty; an error is passed on unchanged and a non-empty
\* output alone keeps error None.  No answer has output and error both empty.
C7_SilenceIsNeverSuccess ==
  \A c \in Calls :
    pc[c] = "responded" =>
      /\ http[c].body.output # <<>> \/ Truthy(http[c].body.error)
      /\ (Allowed(req[c].language) /\ ~local[c].inner.raised) =>
           LET inner == local[c].inner
               body  == http[c].body
           IN /\ body.output = inner.output
              /\ (body.error = NoOutputOrError)
                   <=> (inner.output = <<>> /\ ~Truthy(inner.error))
              /\ Truthy(inner.error) => body.error = inner.error
              /\ (inner.output # <<>> /\ inner.error = None) => body.error = None

C7_Witness ==
  \E c \in Calls :
    /\ pc[c] = "responded"
    /\ req[c].code = "silent"
    /\ local[c].inner = Return(<<>>, None)
    /\ http[c].body = Dict(<<>>, NoOutputOrError)

\* C8: in every allow-listed language a valid program that prints hi and
\* exits 0, run without any fault of the disk or the engine, is answered
\* with error None and an output containing hi.
C8_HelloWorldSucceeds ==
  \A c \in Calls :
    ( /\ pc[c] = "responded"
      /\ Allowed(req[c].language)
      /\ req[c].code = "hello"
      /\ local[c].fault = "none" )
    => /\ http[c].body.error = None
       /\ Contains(http[c].body.output, <<"h", "i">>)

EndsWith(s, t) == Len(s) >= Len(t) /\ SubSeq(s, Len(s) - Len(t) + 1, Len(s)) = t

C10_PartialStdoutKept ==
  \A c \in Calls :
    ( /\ pc[c] = "responded"
      /\ local[c].container # 0
      /\ ContainerOf(c).exit # 0
      /\ ContainerOf(c).out # <<>> )
    => Contains(http[c].body.output, Strip(ContainerOf(c).out))

\* C11: a request that repeats an earlier, finished request of the same
\* requester (same code, same language) and meets no fault of the disk or
\* the engine is answered exactly as it would be if the storage held
\* nothing but the file it staged itself, which is how the first
\* submission was answered.
C11_ResubmissionSameOutcome ==
  \A c \in Calls :
    ( /\ pc[c] = "responded"
      /\ Allowed(req[c].language)
      /\ local[c].container # 0
      /\ \E d \in Calls : pc[d] = "closed" /\ req[d] = req[c] )
    => LET k     == ContainerOf(c)
           alone == ContainerRun((local[c].path :> req[c].code), k.mount, k.command)
       IN http[c] = Endpoint(Normalize(
                      RunDockerContainer(k.image, k.command, ExitEvent(alone))))

\* C12: the class of every answer can be read off the returned value: the
\* unsupported-language message, an error beginning "Command '" for a
\* compile/runtime failure of the user's code (the container exited
\* non-zero), no error or the synthesized diagnostic for a run that exited
\* 0, and any other error text with empty output only for a failure of
\* staging or of the engine.
C12_FailureClassesDistinct ==
  \A c \in Calls :
    pc[c] = "responded" =>
      LET body  == http[c].body
          class == CASE body = NotAvailable -> "unsupported-language"
                     [] body # NotAvailable /\ ~Truthy(body.error) -> "success"
                     [] body # NotAvailable /\ body.error = NoOutputOrError -> "success"
                     [] OTHER ->
                          IF StartsWith(body.error.text, <<"Command '">>)
                            THEN "execution-error"
                            ELSE "infrastructure-error"
          cause == CASE ~Allowed(req[c].language) -> "unsupported-language"
                     [] Allowed(req[c].language) /\ local[c].fault # "none" ->
                          "infrastructure-error"
                     [] OTHER ->
                          IF ContainerOf(c).exit # 0 THEN "execution-error" ELSE "success"
      IN class = cause

\* C13: a request that finds the container engine down (docker.from_env
\* or containers.run cannot reach it) is answered with a 5xx status.
C13_EngineDownAnswers5xx ==
  \A c \in Calls :
    (pc[c] = "responded" /\ local[c].fault \in {"connect_fail", "conn_error"})
      => http[c].status >= 500

\* C14: the name of every staged source file is a token drawn for this
\* execution, and no component of its path holds the requester's username
\* or is the fixed name cs_project.
C14_StagingNamesAreRandomTokens ==
  \A c \in Calls :
    local[c].path # <<>> =>
      LET path == local[c].path IN
        /\ StartsWith(BaseName(path), <<"uuid-">>)
        /\ \A i \in 1..Len(path) :
             /\ ~Contains(path[i], <<req[c].user.username>>)
             /\ path[i] # CsProject

C16_OneLaunchPerCall ==
  \A c \in Calls :
    pc[c] \in {"running", "logging", "responded"} =>
      /\ local[c].launches <= 1
      /\ local[c].launches = 1
           <=> (Allowed(req[c].language) /\ local[c].path # <<>>)

\* C16 as amended: exactly once when the language is allow-listed, the file
\* was staged and docker.from_env returned a client; never otherwise.
C16_OneLaunchPerClient ==
  \A c \in Calls :
    pc[c] \in {"running", "logging", "responded"} =>
      /\ local[c].launches <= 1
      /\ local[c].launches = 1
           <=> ( /\ Allowed(req[c].language)
                 /\ local[c].path # <<>>
                 /\ local[c].fault # "connect_fail" )
      /\ local[c].launches = 1 =>
           (local[c].container # 0 <=> local[c].fault = "none")

C16_Witness ==
  \E c \in Calls :
    /\ pc[c] = "responded"
    /\ local[c].fault = "api_error"
    /\ local[c].launches = 1
    /\ local[c].container = 0

\* C17: while the container of one request is running, the handler of the
\* next request can run: it can stage its file and launch its container
\* without waiting for the first run to end.
C17_NextRequestCanProceed ==
  \A a, b \in Calls :
    ( /\ pc[a] = "running"
      /\ pc[b] = "free"
      /\ \A d \in Calls : d < b => pc[d] # "free" )
    => ENABLED (\E r \in Requests : Execute(b, r))

\* C18: an execution that launched a container has its outcome only once
\* that container has exited, and the outcome is what run_docker_container
\* makes of that exit (status, logs, stderr); an execution whose launch
\* request did not start a container has the outcome of the engine's error.
C18_OutcomeAfterExit ==
  \A c \in Calls :
    pc[c] \in {"logging", "responded"} =>
      /\ local[c].container # 0 =>
           LET k == ContainerOf(c) IN
             /\ k.status = "exited"
             /\ local[c].inner =
                  RunDockerContainer(k.image, k.command,
                    [kind |-> "exit", status |-> k.exit,
                     logs |-> k.out \o k.err, stderr |-> k.err])
      /\ (local[c].launches = 1 /\ local[c].container = 0) =>
           local[c].fault \in {"conn_error", "image_missing", "api_error"}

C18_Witness ==
  \E c \in Calls :
    /\ pc[c] = "responded"
    /\ local[c].container # 0
    /\ ContainerOf(c).status = "exited"
    /\ ContainerOf(c).exit = 0
    /\ http[c].body = Dict(<<"h", "i">>, None)

\* C19: the container of a c, cpp or cs execution is the only one the
\* execution launches; its run step comes right after a compile step that
\* ended with status 0; and when the submitted source does not compile the
\* container exits non-zero without a run step.
C19_RunOnlyAfterCompile ==
  \A c \in Calls :
    ( /\ pc[c] \in {"logging", "responded"}
      /\ local[c].container # 0
      /\ req[c].language \in {"c", "cpp", "cs"} )
    => LET k == ContainerOf(c)
           n == Len(k.steps)
       IN /\ local[c].launches = 1
          /\ \A i \in 1..n : k.steps[i] = "run" => (i = n /\ i > 1 /\ k.steps[i - 1] = "compile")
          /\ ~Behaviour[req[c].code].compiles =>
               /\ k.exit # 0
               /\ k.steps[n] = "compile"

C19_Witness ==
  \E c \in Calls :
    /\ pc[c] = "responded"
    /\ req[c].language = "cpp"
    /\ req[c].code = "syntax"
    /\ local[c].container # 0
    /\ ContainerOf(c).steps = <<"compile">>
    /\ ContainerOf(c).exit = 1

\* C20: while the container of an execution runs, the only submitted
\* source under the directory mounted at /usr/src/app is the file this
\* execution staged.
C20_MountHoldsOnlyOwnFile ==
  \A c \in Calls :
    pc[c] = "running" =>
      LET mount == ContainerOf(c).mount IN
        \A p \in DOMAIN files :
          ( /\ Len(p) > Len(mount)
            /\ SubSeq(p, 1, Len(mount)) = mount
            /\ files[p] \in Codes )
          => p = local[c].path

C22_UserFailureNotLoggedAsError ==
  [][\A c \in Calls :
       ( /\ pc[c] = "logging"
         /\ pc'[c] = "responded"
         /\ local[c].fault = "none"
         /\ ~Behaviour[req[c].code].compiles )
       => \A rec \in log' \ log : rec.level # "error"]_vars

\* C23: a language has a branch in execute_code exactly when it is on the
\* allow-list, and an execution whose language passed the allow-list test
\* never gets the ('', 'Unsupported language') fallback.
C23_AllowListMatchesDispatch ==
  /\ \A language \in Languages : Dispatched(language) <=> Allowed(language)
  /\ \A c \in Calls :
       (pc[c] \in {"logging", "responded"} /\ Allowed(req[c].language))
         => local[c].inner # Unsupported

C23_Witness ==
  \E c \in Calls :
    /\ pc[c] = "responded"
    /\ req[c].language = "ruby"
    /\ req[c].code = "hello"
    /\ local[c].launches = 1
    /\ http[c].body = Dict(<<"h", "i">>, None)

\* C24: the command of the container an execution launches names, under
\* /usr/src/app/, the base name of the file this execution staged.
C24_CommandNamesStagedFile ==
  \A c \in Calls :
    (pc[c] = "running" /\ Allowed(req[c].language)) =>
      Contains(ContainerOf(c).command, <<APP>> \o BaseName(local[c].path))

\* C25: an execution that has a container has its staging directory and
\* its source file, holding the submitted code, on the disk (both were in
\* place when the launch was requested, and the request that holds the
\* event loop or awaits its answer is the last to have written there); an
\* execution whose makedirs or write failed has requested no launch and has
\* no container.
C25_StagedBeforeLaunch ==
  \A c \in Calls :
    pc[c] \in {"running", "logging", "responded"} =>
      /\ local[c].container # 0 =>
           /\ local[c].path # <<>>
           /\ DirOf(local[c].path) \in dirs
           /\ local[c].path \in DOMAIN files
           /\ files[local[c].path] = req[c].code
      /\ local[c].fault \in {"mkdir_fail", "open_fail"} =>
           /\ local[c].container = 0
           /\ local[c].launches = 0
           /\ pc[c] = "responded"

C25_Witness ==
  \E c \in Calls :
    /\ pc[c] = "responded"
    /\ req[c].language = "c"
    /\ local[c].fault = "open_fail"
    /\ local[c].container = 0
    /\ containers = {}
    /\ http[c].body = Dict(<<>>, Str(OSErrorMsg))

\* C26: a call of execute_code with a language that has no branch, meeting
\* no fault of the disk, returns ('', 'Unsupported language') in the step
\* that makes it and that step creates no directory, writes no file, draws
\* no name and launches no container.
C26_FallbackWithoutSideEffects ==
  [][\A c \in Calls :
       ( /\ pc[c] = "free"
         /\ pc'[c] # "free"
         /\ ~Dispatched(req'[c].language)
         /\ local'[c].fault = "none" )
       => /\ local'[c].inner = Unsupported
          /\ UNCHANGED <<dirs, files, containers, uuids>>]_vars

\* C27: a call of create_project_in_container for an unknown container id
\* fails with 404; for an existing container and a language other than
\* csharp and python it fails with 400 and the detail 'Unsupported
\* language: <language>' and runs nothing in the container; and when the
\* command it ran exited non-zero it fails with 500 and a detail that holds
\* the exit code.
C27_ProjectCreationFailures ==
  [][reply'.call = "create_project_in_container" =>
       LET a == reply'.args IN
         /\ ~Known(a.container_id) => reply'.status = 404
         /\ (Known(a.container_id) /\ a.language \notin {"csharp", "python"}) =>
              /\ reply'.status = 400
              /\ reply'.detail = <<"Unsupported language: ", a.language>>
              /\ engine' = engine
         /\ (engine' # engine /\ reply'.status # 200) =>
              /\ reply'.status = 500
              /\ Contains(reply'.detail, <<"Command failed with exit code ", "1">>)]_vars

\* C28: no two containers ever have the name of the same (workspace_id,
\* project_id) pair; a create_container for a pair whose name is taken
\* fails with 500 and changes no container, and for a free name it creates
\* the container unless the engine fails; stop_container and
\* remove_container of an unknown id fail with 404 and change no container;
\* a remove_container that returns leaves the name of the removed container
\* free.
C28_OneContainerPerPair ==
  /\ [](\A k1, k2 \in engine : k1.name = k2.name => k1 = k2)
  /\ [][LET a == reply'.args IN
          /\ reply'.call = "create_container" =>
               LET name == ContainerName(a.workspace_id, a.project_id) IN
                 /\ (\E k \in engine : k.name = name) =>
                      reply'.status = 500 /\ engine' = engine
                 /\ (~(\E k \in engine : k.name = name) /\ reply'.status # 200) =>
                      reply'.status = 500 /\ reply'.detail = ImageNotFoundMsg
                 /\ reply'.status = 200 =>
                      \E k \in engine' \ engine : k.name = name /\ k.status = "running"
          /\ (reply'.call \in {"stop_container", "remove_container"}
                /\ ~(\E k \in engine : k.id = a.container_id)) =>
               reply'.status = 404 /\ engine' = engine
          /\ (reply'.call = "remove_container" /\ reply'.status = 200) =>
               \E k \in engine :
                 /\ k.id = a.container_id
                 /\ engine' = engine \ {k}
                 /\ ~(\E j \in engine' : j.name = k.name)]_vars

C28_Witness ==
  /\ reply.call = "create_container"
  /\ reply.status = 200
  /\ ids = 2
  /\ \E k \in engine :
       k.id = 2 /\ k.name = ContainerName(reply.args.workspace_id, reply.args.project_id)
  /\ \A k \in engine : k.id # 1
  /\ VolumePath(1, 1) \in volumes
  /\ Cardinality(engine) = 1

\* C29: every call of get_abs_file_path either raises 400 'Invalid path'
\* or returns a path whose location is the workspace directory or lies
\* below it.
C29_ReturnedPathInsideWorkspace ==
  path_call.status # 0 =>
    \/ path_call.status = 400 /\ path_call.detail = InvalidPath
    \/ /\ path_call.status = 200
       /\ Inside(Resolve(path_call.abs_path), Resolve(path_call.workspace_path))

====
